---------------------------- MODULE Spec2Model ----------------------------
(***************************************************************************)
(* Model of blindfold_chess: the move-candidate resolution and rejection   *)
(* diagnosis (candidate_moves.py), the token parser (request_assistant.py),*)
(* the explanation generator (feedback_assistant.py) and the utterance     *)
(* handler (voice_control.py).                                             *)
(*                                                                         *)
(* Squares are numbered as the rules engine numbers them: a1 = 0, b1 = 1,  *)
(* ..., h1 = 7, a2 = 8, ..., h8 = 63.  A bitboard is the set of its bit    *)
(* positions.  A colour is a BOOLEAN, TRUE for white.  Python's None is    *)
(* the string "None" in a field and the piece NoPiece on a square.         *)
(***************************************************************************)
EXTENDS Integers, Sequences, FiniteSets, TLC

VARIABLES board, last_spoken_command, last_board_command, heard, probe

vars == <<board, last_spoken_command, last_board_command, heard, probe>>

----------------------------------------------------------------------------
(* candidate_moves.py, lines 7-14: the keyword tables                      *)

PIECES == {"pawn", "knight", "bishop", "rook", "queen", "king"}

FILES == {"a", "b", "c", "d", "e", "f", "g", "h"}

RANKS == {"1", "2", "3", "4", "5", "6", "7", "8"}

FileIdx(f) ==
    CASE f = "a" -> 0 [] f = "b" -> 1 [] f = "c" -> 2 [] f = "d" -> 3
      [] f = "e" -> 4 [] f = "f" -> 5 [] f = "g" -> 6 [] f = "h" -> 7

RankIdx(r) ==
    CASE r = "1" -> 0 [] r = "2" -> 1 [] r = "3" -> 2 [] r = "4" -> 3
      [] r = "5" -> 4 [] r = "6" -> 5 [] r = "7" -> 6 [] r = "8" -> 7

Squares == 0 .. 63

WHITE == TRUE

BLACK == FALSE

FileOf(s) == s % 8

RankOf(s) == s \div 8

Sq(f, r) == RankIdx(r) * 8 + FileIdx(f)

\* FILES[f] and RANKS[r]: the bitboard of a file, of a rank
BB_FILE(f) == {FileIdx(f) + 8 * r : r \in 0 .. 7}

BB_RANK(r) == {RankIdx(r) * 8 + f : f \in 0 .. 7}

BB_ALL == Squares

BB_BACKRANKS == BB_RANK("1") \cup BB_RANK("8")

\* chess.square_name
FileName(s) == CHOOSE f \in FILES : FileIdx(f) = FileOf(s)

RankName(s) == CHOOSE r \in RANKS : RankIdx(r) = RankOf(s)

----------------------------------------------------------------------------
(* Pieces and positions                                                    *)

NoPiece == [pt |-> "None", color |-> FALSE]

Piece(pt, c) == [pt |-> pt, color |-> c]

EmptyPos == [s \in Squares |-> NoPiece]

\* a position from a set of <<square, piece kind, colour>> placements
Place(ps) == [s \in Squares |->
    IF \E p \in ps : p[1] = s
    THEN LET p == CHOOSE q \in ps : q[1] = s IN Piece(p[2], p[3])
    ELSE NoPiece]

Occupied(pos) == {s \in Squares : pos[s].pt # "None"}

OccupiedCo(pos, c) == {s \in Squares : pos[s].pt # "None" /\ pos[s].color = c}

\* board.pieces(piece_type, color)
PiecesOf(pos, pt, c) == {s \in Squares : pos[s].pt = pt /\ pos[s].color = c}

Abs(x) == IF x < 0 THEN -x ELSE x

Sgn(x) == IF x < 0 THEN -1 ELSE IF x > 0 THEN 1 ELSE 0

Aligned(a, b) ==
    /\ a # b
    /\ \/ FileOf(a) = FileOf(b)
       \/ RankOf(a) = RankOf(b)
       \/ Abs(FileOf(a) - FileOf(b)) = Abs(RankOf(a) - RankOf(b))

\* the step from a towards b along their common line
StepTo(a, b) == Sgn(RankOf(b) - RankOf(a)) * 8 + Sgn(FileOf(b) - FileOf(a))

\* the number of steps from a to b along their common line
Distance(a, b) ==
    IF FileOf(a) # FileOf(b) THEN Abs(FileOf(b) - FileOf(a))
    ELSE Abs(RankOf(b) - RankOf(a))

\* chess.SquareSet.between: the squares strictly between two aligned squares
Between(a, b) ==
    IF ~Aligned(a, b) THEN {}
    ELSE {a + k * StepTo(a, b) : k \in 1 .. (Distance(a, b) - 1)}

\* the square <<df, dr>> away from s, or -1 off the board
Off(s, d) ==
    IF FileOf(s) + d[1] \in 0 .. 7 /\ RankOf(s) + d[2] \in 0 .. 7
    THEN s + d[2] * 8 + d[1] ELSE -1

\* chess.ray: the whole line through two aligned squares
Ray(a, b) ==
    IF ~Aligned(a, b) THEN {}
    ELSE LET d == <<Sgn(FileOf(b) - FileOf(a)), Sgn(RankOf(b) - RankOf(a))>>
         IN  {Off(a, <<k * d[1], k * d[2]>>) : k \in -7 .. 7} \ {-1}

KnightSteps == {<<1, 2>>, <<2, 1>>, <<2, -1>>, <<1, -2>>,
                <<-1, -2>>, <<-2, -1>>, <<-2, 1>>, <<-1, 2>>}

KingSteps == {<<1, 0>>, <<1, 1>>, <<0, 1>>, <<-1, 1>>,
              <<-1, 0>>, <<-1, -1>>, <<0, -1>>, <<1, -1>>}

RookSteps == {<<1, 0>>, <<0, 1>>, <<-1, 0>>, <<0, -1>>}

BishopSteps == {<<1, 1>>, <<-1, 1>>, <<-1, -1>>, <<1, -1>>}

\* the squares a pawn of colour c attacks from a
PawnSteps(c) == IF c THEN {<<1, 1>>, <<-1, 1>>} ELSE {<<1, -1>>, <<-1, -1>>}

KnightReach(a) == {Off(a, d) : d \in KnightSteps} \ {-1}

KingReach(a) == {Off(a, d) : d \in KingSteps} \ {-1}

PawnReach(c, a) == {Off(a, d) : d \in PawnSteps(c)} \ {-1}

RookLine(a, b) == a # b /\ (FileOf(a) = FileOf(b) \/ RankOf(a) = RankOf(b))

BishopLine(a, b) == a # b /\
    Abs(FileOf(a) - FileOf(b)) = Abs(RankOf(a) - RankOf(b))

\* does the piece on s attack t: BaseBoard.attacks(s) holds t
AttacksSq(pos, s, t) ==
    LET p == pos[s]
        clear == \A x \in Between(s, t) : pos[x].pt = "None"
    IN  CASE p.pt = "pawn"   -> t \in PawnReach(p.color, s)
          [] p.pt = "knight" -> t \in KnightReach(s)
          [] p.pt = "king"   -> t \in KingReach(s)
          [] p.pt = "rook"   -> RookLine(s, t) /\ clear
          [] p.pt = "bishop" -> BishopLine(s, t) /\ clear
          [] p.pt = "queen"  -> (RookLine(s, t) \/ BishopLine(s, t)) /\ clear
          [] OTHER -> FALSE

\* the first occupied square from t in direction d, or -1
RECURSIVE FirstHit(_, _, _)
FirstHitAt(pos, n, d) ==
    IF n = -1 THEN -1
    ELSE IF pos[n].pt # "None" THEN n
    ELSE FirstHit(pos, n, d)

FirstHit(pos, t, d) == FirstHitAt(pos, Off(t, d), d)

SliderAt(pos, s, c, kinds) ==
    s # -1 /\ pos[s].color = c /\ pos[s].pt \in kinds

\* board.is_attacked_by(color, square): some piece of that colour attacks t
IsAttackedBy(pos, c, t) ==
    \/ \E s \in KnightReach(t) : pos[s] = Piece("knight", c)
    \/ \E s \in KingReach(t) : pos[s] = Piece("king", c)
    \/ \E s \in PawnReach(~c, t) : pos[s] = Piece("pawn", c)
    \/ \E d \in RookSteps : SliderAt(pos, FirstHit(pos, t, d), c, {"rook", "queen"})
    \/ \E d \in BishopSteps :
          SliderAt(pos, FirstHit(pos, t, d), c, {"bishop", "queen"})

\* board.king(color): the king's square, or -1 for None
KingOf(pos, c) ==
    IF \E s \in Squares : pos[s] = Piece("king", c)
    THEN CHOOSE s \in Squares : pos[s] = Piece("king", c)
    ELSE -1

\* board.is_check()
IsCheck(b) ==
    LET k == KingOf(b.pos, b.turn)
    IN  k # -1 /\ IsAttackedBy(b.pos, ~b.turn, k)

----------------------------------------------------------------------------
(* The rules engine's board: position, side to move, castling rights (the  *)
(* rook squares that keep them), en passant square (-1 for None) and the   *)
(* move stack.  A move is [from, to, promotion].                           *)

Move(f, t, pr) == [from |-> f, to |-> t, promotion |-> pr]

Board(pos, turn, castling, ep) ==
    [pos |-> pos, turn |-> turn, castling |-> castling, ep |-> ep, stack |-> <<>>]

BackRank(c) == IF c THEN BB_RANK("1") ELSE BB_RANK("8")

KingHome(c) == IF c THEN Sq("e", "1") ELSE Sq("e", "8")

\* board.clean_castling_rights(), one colour's part
CleanCastlingRights(b, c) ==
    IF b.pos[KingHome(c)] # Piece("king", c) THEN {}
    ELSE {r \in b.castling \cap BackRank(c) : b.pos[r] = Piece("rook", c)}

\* board.has_kingside_castling_rights(color)
HasKingsideCastlingRights(b, c) ==
    \E r \in CleanCastlingRights(b, c) : r > KingHome(c)

\* board.has_queenside_castling_rights(color)
HasQueensideCastlingRights(b, c) ==
    \E r \in CleanCastlingRights(b, c) : r < KingHome(c)

\* Board.generate_castling_moves: can the side to move castle with the rook on r
CanCastleWith(b, r) ==
    LET c      == b.turn
        k      == KingHome(c)
        aside  == r < k
        kingTo == IF aside THEN k - 2 ELSE k + 2
        rookTo == IF aside THEN k - 1 ELSE k + 1
        path   == Between(k, kingTo) \cup Between(r, rookTo) \cup {kingTo, rookTo}
        noKing == [b.pos EXCEPT ![k] = NoPiece]
        moved  == [noKing EXCEPT ![r] = NoPiece, ![rookTo] = Piece("rook", c)]
    IN  /\ r \in CleanCastlingRights(b, c)
        /\ \A s \in path \ {k, r} : b.pos[s].pt = "None"
        /\ \A s \in Between(k, kingTo) \cup {k} : ~IsAttackedBy(noKing, ~c, s)
        /\ ~IsAttackedBy(moved, ~c, kingTo)

\* the castling move of the side to move as the engine writes it: king two files
IsCastlingMove(b, m) ==
    /\ b.pos[m.from] = Piece("king", b.turn)
    /\ m.from = KingHome(b.turn)
    /\ Abs(m.to - m.from) = 2
    /\ m.promotion = "None"

CastleRook(b, m) ==
    IF m.to > m.from THEN KingHome(b.turn) + 3 ELSE KingHome(b.turn) - 4

\* board.is_en_passant(move)
IsEnPassant(b, m) ==
    /\ b.ep = m.to
    /\ b.pos[m.from].pt = "pawn"
    /\ Abs(m.to - m.from) \in {7, 9}
    /\ b.pos[m.to].pt = "None"

\* board.is_capture(move)
IsCapture(b, m) ==
    \/ \E s \in {m.from, m.to} : b.pos[s].pt # "None" /\ b.pos[s].color = ~b.turn
    \/ IsEnPassant(b, m)

\* Board.generate_pseudo_legal_moves restricted to one pawn move
PawnPseudoLegal(b, m) ==
    LET c    == b.turn
        up   == IF c THEN 8 ELSE -8
        home == IF c THEN BB_RANK("2") ELSE BB_RANK("7")
        last == IF c THEN BB_RANK("8") ELSE BB_RANK("1")
        epr  == IF c THEN BB_RANK("5") ELSE BB_RANK("4")
    IN  /\ \/ /\ m.to \in PawnReach(c, m.from)
              /\ b.pos[m.to].pt # "None" /\ b.pos[m.to].color = ~c
           \/ m.to = m.from + up /\ b.pos[m.to].pt = "None"
           \/ /\ m.from \in home /\ m.to = m.from + 2 * up
              /\ b.pos[m.from + up].pt = "None" /\ b.pos[m.to].pt = "None"
           \/ /\ b.ep > 0 /\ m.to = b.ep /\ b.pos[b.ep].pt = "None"
              /\ m.from \in epr /\ m.to \in PawnReach(c, m.from)
        /\ IF m.to \in last
           THEN m.promotion \in {"queen", "rook", "bishop", "knight"}
           ELSE m.promotion = "None"

\* board.is_pseudo_legal(move)
IsPseudoLegal(b, m) ==
    LET p == b.pos[m.from]
    IN  /\ ~(m.from = 0 /\ m.to = 0 /\ m.promotion = "None")
        /\ p.pt # "None"
        /\ p.color = b.turn
        /\ m.promotion # "None" =>
              /\ p.pt = "pawn"
              /\ RankOf(m.to) = (IF b.turn THEN 7 ELSE 0)
        /\ \/ IsCastlingMove(b, m) /\ CanCastleWith(b, CastleRook(b, m))
           \/ /\ ~(b.pos[m.to].pt # "None" /\ b.pos[m.to].color = b.turn)
              /\ IF p.pt = "pawn" THEN PawnPseudoLegal(b, m)
                 ELSE AttacksSq(b.pos, m.from, m.to)

\* the position after a move (pieces only)
PosAfter(b, m) ==
    LET p     == b.pos[m.from]
        c     == b.turn
        landed == IF m.promotion # "None" THEN Piece(m.promotion, c) ELSE p
        base  == [b.pos EXCEPT ![m.from] = NoPiece, ![m.to] = landed]
    IN  IF IsCastlingMove(b, m)
        THEN [base EXCEPT ![CastleRook(b, m)] = NoPiece,
                          ![(m.from + m.to) \div 2] = Piece("rook", c)]
        ELSE IF IsEnPassant(b, m)
        THEN [base EXCEPT ![m.to + (IF c THEN -8 ELSE 8)] = NoPiece]
        ELSE base

\* board.is_into_check(move)
IsIntoCheck(b, m) ==
    LET after == PosAfter(b, m)
        k     == KingOf(after, b.turn)
    IN  k # -1 /\ IsAttackedBy(after, ~b.turn, k)

\* board.is_legal(move)
IsLegal(b, m) == IsPseudoLegal(b, m) /\ ~IsIntoCheck(b, m)

\* Board._from_chess960 as find_move uses it: king-takes-rook becomes castling
FromChess960(b, f, t, pr) ==
    IF pr = "None" /\ f \in {KingHome(WHITE), KingHome(BLACK)}
       /\ b.pos[f].pt = "king" /\ t = f + 3
    THEN Move(f, f + 2, pr)
    ELSE IF pr = "None" /\ f \in {KingHome(WHITE), KingHome(BLACK)}
       /\ b.pos[f].pt = "king" /\ t = f - 4
    THEN Move(f, f - 2, pr)
    ELSE Move(f, t, pr)

\* the move board.find_move(from, to, promotion) looks up: a pawn reaching a
\* back rank with no promotion named is promoted to a queen
FindMoveLookup(b, f, t, pr) ==
    LET auto == IF pr = "None" /\ b.pos[f].pt = "pawn" /\ t \in BB_BACKRANKS
                THEN "queen" ELSE pr
    IN  FromChess960(b, f, t, auto)

\* board.find_move raises ValueError exactly when the looked-up move is illegal
FindMoveFails(b, f, t, pr) == ~IsLegal(b, FindMoveLookup(b, f, t, pr))

\* board.push(move)
Push(b, m) ==
    LET p      == b.pos[m.from]
        c      == b.turn
        rights == (b.castling \ {m.from, m.to}) \
                    (IF p.pt = "king" THEN BackRank(c) ELSE {})
        ep     == IF p.pt = "pawn" /\ Abs(m.to - m.from) = 16
                     /\ m.from \in (IF c THEN BB_RANK("2") ELSE BB_RANK("7"))
                  THEN (m.from + m.to) \div 2 ELSE -1
    IN  [pos |-> PosAfter(b, m), turn |-> ~c, castling |-> rights, ep |-> ep,
         stack |-> Append(b.stack, m)]

\* board.parse_san('O-O') / board.parse_san('O-O-O'): the castling move, or
\* ValueError (ok = FALSE) when the side to move cannot castle on that side
ParseSanCastle(b, side) ==
    LET k == KingHome(b.turn)
        m == IF side = "king" THEN Move(k, k + 2, "None") ELSE Move(k, k - 2, "None")
        r == IF side = "king" THEN k + 3 ELSE k - 4
    IN  [ok |-> CanCastleWith(b, r), move |-> m]

\* board.pin(color, square): BB_ALL unless the square is pinned to color's king
Pin(pos, c, s) ==
    LET k == KingOf(pos, c)
        snipers == IF k = -1 \/ ~Aligned(k, s) THEN {}
                   ELSE {x \in Ray(k, s) \ {k, s} :
                           /\ pos[x].pt # "None" /\ pos[x].color = ~c
                           /\ IF RookLine(k, s) THEN pos[x].pt \in {"rook", "queen"}
                              ELSE pos[x].pt \in {"bishop", "queen"}
                           /\ Between(x, k) \cap (Occupied(pos) \cup {s}) = {s}}
    IN  IF snipers = {} THEN BB_ALL
        ELSE Ray(k, CHOOSE x \in snipers : TRUE)

----------------------------------------------------------------------------
(* candidate_moves.py                                                      *)

\* Python's int shifts on a bitboard: << grows without bound, >> drops bits
ShiftL(bb, n) == {x + n : x \in bb}

ShiftR(bb, n) == {x - n : x \in {y \in bb : y >= n}}

\* SquareSet(n) for an int n: the int is read as a bitboard, not as a square
\* (n is a square's number, below 64, so only bits 0 to 5 can be set)
IntMask(n) == {i \in 0 .. 5 : (n \div (2 ^ i)) % 2 = 1}

\* sorted sequence of a set of squares: the order a SquareSet iterates in
SquareSeq(S) ==
    [i \in 1 .. Cardinality(S) |->
        CHOOSE s \in S : Cardinality({x \in S : x < s}) = i - 1]

\* is_possible_move as it would be without the masks that keep the double
\* step to a pawn's first move
is_possible_move_double_step_anywhere(piece, from_square, to_square) ==
    IF piece.pt = "pawn"
    THEN LET legal_advances ==
                IF piece.color = WHITE
                THEN ShiftL({from_square}, 8) \cup ShiftL({from_square}, 16)
                ELSE ShiftR({from_square}, 8) \cup ShiftR({from_square}, 16)
         IN  to_square \in legal_advances
    ELSE AttacksSq([EmptyPos EXCEPT ![from_square] = piece], from_square, to_square)

\* is_possible_move, for a piece that is not None
is_possible_move(piece, from_square, to_square) ==
    IF piece.pt = "pawn"
    THEN LET bb_from_square == {from_square}
             bb_to_square   == {to_square}
             legal_advances ==
                IF piece.color = WHITE
                THEN ShiftL(bb_from_square, 8) \cup
                       (ShiftL(bb_from_square, 16) \cap BB_RANK("4"))
                ELSE ShiftR(bb_from_square, 8) \cup
                       (ShiftR(bb_from_square, 16) \cap BB_RANK("5"))
         IN  (legal_advances \cap bb_to_square) # {}
    ELSE LET empty == [EmptyPos EXCEPT ![from_square] = piece]
         IN  AttacksSq(empty, from_square, to_square)

\* blocking_squares as it would be if a destination held by either colour
\* counted as blocking
blocking_squares_any_colour(b, from_square, to_square) ==
    LET hit == {square \in Between(from_square, to_square) :
                    b.pos[square].pt # "None"}
    IN  IF is_possible_move(b.pos[from_square], from_square, to_square)
        THEN UNION {IntMask(square) : square \in hit} \cup
             (IF b.pos[to_square].pt # "None" THEN IntMask(to_square) ELSE {})
        ELSE {}

\* blocking_squares, for a from_square that holds a piece; each |= takes the
\* square's number as a bitboard
blocking_squares(b, from_square, to_square) ==
    LET from_piece == b.pos[from_square]
        to_piece   == b.pos[to_square]
        hit  == {square \in Between(from_square, to_square) :
                    b.pos[square].pt # "None"}
        path == UNION {IntMask(square) : square \in hit}
        dest == IF to_piece.pt # "None" /\ from_piece.color = to_piece.color
                THEN IntMask(to_square) ELSE {}
    IN  IF is_possible_move(from_piece, from_square, to_square)
        THEN path \cup dest
        ELSE {}

SpecificSquares(color, piece, file, rank) ==
    [color |-> color, piece |-> piece, file |-> file, rank |-> rank]

\* SpecificSquares.__bool__
SpecBool(spec) == ~(spec.piece = "None" /\ spec.file = "None" /\ spec.rank = "None")

\* find_candidate_squares as it would be if the colour were always enforced
find_candidate_squares_own_colour(spec, b) ==
    {s \in OccupiedCo(b.pos, spec.color) :
        /\ spec.piece # "None" => b.pos[s].pt = spec.piece
        /\ spec.file # "None" => s \in BB_FILE(spec.file)
        /\ spec.rank # "None" => s \in BB_RANK(spec.rank)}

\* SpecificSquares.find_candidate_squares
find_candidate_squares(spec, b) ==
    LET file_squares  == IF spec.file # "None" THEN BB_FILE(spec.file) ELSE BB_ALL
        piece_squares == IF spec.piece # "None"
                         THEN PiecesOf(b.pos, spec.piece, spec.color) ELSE BB_ALL
        rank_squares  == IF spec.rank # "None" THEN BB_RANK(spec.rank) ELSE BB_ALL
    IN  IF spec.file # "None" /\ spec.piece = "None" /\ spec.rank = "None"
        THEN PiecesOf(b.pos, "pawn", spec.color) \cap file_squares
        ELSE piece_squares \cap file_squares \cap rank_squares

\* RejectedMove.__init__: fault is the exception it raises, "None" if it returns
RejectedMove(b, from_square, to_square) ==
    LET from_piece == b.pos[from_square]
        to_piece   == b.pos[to_square]
    IN  IF from_piece.pt = "None"
        THEN [fault |-> "AttributeError", from |-> from_square, to |-> to_square]
        ELSE [fault |-> "None", from |-> from_square, to |-> to_square,
              possible |-> is_possible_move(from_piece, from_square, to_square),
              blocking_pieces |-> blocking_squares(b, from_square, to_square),
              captures |-> to_piece.pt # "None",
              still_in_check |-> IsAttackedBy(b.pos, ~b.turn, to_square),
              absolute_pin |-> Pin(b.pos, from_piece.color, from_square) # BB_ALL]

\* CastleMove._castle_conditions: the attributes set when right_to_castle
\* holds, added to those __init__ and the rights query set
castle_conditions(head, b, from_square, through_square, to_square) ==
    [side |-> head.side, in_check |-> head.in_check, right_to_castle |-> TRUE,
     blocking_pieces |->
        blocking_squares(b, from_square, through_square) \cup
        (IF b.pos[to_square].pt # "None" THEN IntMask(to_square) ELSE {}),
     through_check |-> IsAttackedBy(b.pos, ~b.turn, through_square),
     into_check |-> IsAttackedBy(b.pos, ~b.turn, to_square)]

\* CastleMove.__init__; blocking_pieces, through_check and into_check are
\* attributes only when right_to_castle holds
CastleMove(b, side) ==
    LET k     == KingHome(b.turn)
        right == IF side = "king" THEN HasKingsideCastlingRights(b, b.turn)
                 ELSE HasQueensideCastlingRights(b, b.turn)
        head  == [side |-> side, in_check |-> IsCheck(b), right_to_castle |-> FALSE]
    IN  IF right
        THEN castle_conditions(head, b, k,
                               IF side = "king" THEN k + 1 ELSE k - 1,
                               IF side = "king" THEN k + 2 ELSE k - 2)
        ELSE head

\* the inner loop's pass as it would be if a legal move that is no capture,
\* a capture being asked for, were left out of both lists
ConsiderPair_drops_non_capture(b, captures, promote_piece, from_square, to_square) ==
    IF FindMoveFails(b, from_square, to_square, promote_piece)
    THEN [cls |-> "reject", from |-> from_square, to |-> to_square]
    ELSE IF captures
            /\ ~IsCapture(b, FindMoveLookup(b, from_square, to_square, promote_piece))
    THEN [cls |-> "dropped", from |-> from_square, to |-> to_square]
    ELSE [cls |-> "candidate", from |-> from_square, to |-> to_square,
          move |-> FindMoveLookup(b, from_square, to_square, promote_piece)]

\* the verdict of one pass of CommandMove.consider_moves' inner loop
ConsiderPair(b, captures, promote_piece, from_square, to_square) ==
    LET candidate == FindMoveLookup(b, from_square, to_square, promote_piece)
    IN  IF FindMoveFails(b, from_square, to_square, promote_piece)
        THEN [cls |-> "reject", from |-> from_square, to |-> to_square]
        ELSE IF captures /\ ~IsCapture(b, candidate)
        THEN [cls |-> "reject", from |-> from_square, to |-> to_square]
        ELSE [cls |-> "candidate", from |-> from_square, to |-> to_square,
              move |-> candidate]

\* the (from_square, to_square) pairs in the order the two loops visit them
PairSeq(from_squares, to_squares) ==
    LET fs == SquareSeq(from_squares)
        ts == SquareSeq(to_squares)
        n  == Len(ts)
    IN  [i \in 1 .. Len(fs) * n |->
            <<fs[((i - 1) \div n) + 1], ts[((i - 1) % n) + 1]>>]

MapSeq(seq, Op(_)) == [i \in 1 .. Len(seq) |-> Op(seq[i])]

CommandMove(from_where, to_where, say_takes, say_promotes) ==
    [kind |-> "move", from_where |-> from_where, to_where |-> to_where,
     captures |-> say_takes, promotes_to |-> say_promotes,
     candidate_moves |-> <<>>, rejected_moves |-> <<>>, fault |-> "None"]

\* the end of CommandMove.consider_moves: the two lists are assigned unless a
\* RejectedMove raised
assign_moves(cmd, candidates, rejects) ==
    IF \E i \in DOMAIN rejects : rejects[i].fault # "None"
    THEN [cmd EXCEPT !.fault = "AttributeError"]
    ELSE [cmd EXCEPT !.candidate_moves = candidates,
                     !.rejected_moves = rejects]

\* the two lists the loops of CommandMove.consider_moves build from the
\* verdicts on the pairs
sort_verdicts(cmd, b, verdicts) ==
    LET IsCand(v) == v.cls = "candidate"
        IsRej(v)  == v.cls = "reject"
        MoveOf(v) == v.move
        RejOf(v)  == RejectedMove(b, v.from, v.to)
    IN  assign_moves(cmd, MapSeq(SelectSeq(verdicts, IsCand), MoveOf),
                     MapSeq(SelectSeq(verdicts, IsRej), RejOf))

consider_pairs(cmd, b, pairs) ==
    sort_verdicts(cmd, b,
        [i \in DOMAIN pairs |->
            ConsiderPair(b, cmd.captures,
                         IF cmd.promotes_to \in PIECES THEN cmd.promotes_to
                         ELSE "None",
                         pairs[i][1], pairs[i][2])])

\* CommandMove.consider_moves: the command with its two lists assigned, or,
\* when a RejectedMove raises, the command untouched with the fault
CommandMove_consider_moves(cmd, b) ==
    consider_pairs(cmd, b,
        PairSeq(find_candidate_squares(cmd.from_where, b),
                find_candidate_squares(cmd.to_where, b)))

CastleCommand(side) ==
    [kind |-> "castle", side |-> side,
     candidate_moves |-> <<>>, rejected_moves |-> <<>>, fault |-> "None"]

\* CastleCommand.consider_moves, k and q being what parse_san answers for
\* 'O-O' and 'O-O-O'
castle_lists(cmd, b, k, q) ==
    LET tryK == cmd.side = "king" \/ cmd.side = "None"
        tryQ == cmd.side = "queen" \/ cmd.side = "None"
    IN  [cmd EXCEPT
            !.candidate_moves =
                (IF tryK /\ k.ok THEN <<k.move>> ELSE <<>>) \o
                (IF tryQ /\ q.ok THEN <<q.move>> ELSE <<>>),
            !.rejected_moves =
                (IF tryK /\ ~k.ok THEN <<CastleMove(b, "king")>> ELSE <<>>) \o
                (IF tryQ /\ ~q.ok THEN <<CastleMove(b, "queen")>> ELSE <<>>)]

CastleCommand_consider_moves(cmd, b) ==
    castle_lists(cmd, b, ParseSanCastle(b, "king"), ParseSanCastle(b, "queen"))

\* take_last: board.peek() raises IndexError on an empty move stack
take_last(taker, b, say_promotes) ==
    IF b.stack = <<>>
    THEN [kind |-> "move", fault |-> "IndexError"]
    ELSE LET to_square == b.stack[Len(b.stack)].to
             takee == SpecificSquares(b.turn, "None",
                                      FileName(to_square), RankName(to_square))
         IN  CommandMove(taker, takee, TRUE, say_promotes)

----------------------------------------------------------------------------
(* request_assistant.py.  A request is the sequence of its words.          *)

TAKE_TOKENS == {"takes", "captures"}

PROMOTE_TOKENS == {"promote", "equals"}

KINGSIDE_TOKENS == {"king", "short"}

QUEENSIDE_TOKENS == {"queen", "long"}

WRITTEN_NUMS == [w \in {"one", "two", "three", "four", "five", "six", "seven", "eight"} |->
    CASE w = "one" -> "1" [] w = "two" -> "2" [] w = "three" -> "3"
      [] w = "four" -> "4" [] w = "five" -> "5" [] w = "six" -> "6"
      [] w = "seven" -> "7" [] w = "eight" -> "8"]

TokensFrom(tokens, i) == SubSeq(tokens, i, Len(tokens))

\* the for loop of locations_in_tokens from its i-th token (1-based) on, loc
\* being the specification built so far: where the loop ends.  brk = 0 when
\* the tokens run out, else the 1-based index the recursive call starts at.
RECURSIVE ScanGroup(_, _, _)
ScanGroup(tokens, i, loc) ==
    IF i > Len(tokens) THEN [loc |-> loc, brk |-> 0]
    ELSE LET token == tokens[i]
         IN  IF token \in PIECES /\ ~SpecBool(loc)
             THEN ScanGroup(tokens, i + 1, [loc EXCEPT !.piece = token])
             ELSE IF token = "on"
             THEN ScanGroup(tokens, i + 1, loc)
             ELSE IF token \in FILES /\ loc.file = "None" /\ loc.rank = "None"
             THEN ScanGroup(tokens, i + 1, [loc EXCEPT !.file = token])
             ELSE IF token \in DOMAIN WRITTEN_NUMS /\ loc.rank = "None"
             THEN ScanGroup(tokens, i + 1, [loc EXCEPT !.rank = WRITTEN_NUMS[token]])
             ELSE IF ~(token \in PIECES \/ token \in FILES \/ token \in RANKS)
             THEN [loc |-> loc, brk |-> i + 1]
             ELSE [loc |-> loc, brk |-> i]

\* locations_in_tokens as it would be if the recursive call kept the colour
RECURSIVE locations_in_tokens_same_turn(_, _)
locations_in_tokens_same_turn(tokens, turn) ==
    IF tokens = <<>> THEN [fault |-> "None", locs |-> <<>>]
    ELSE LET g    == ScanGroup(tokens, 1, SpecificSquares(turn, "None", "None", "None"))
             rest == IF g.brk = 0 THEN [fault |-> "None", locs |-> <<>>]
                     ELSE IF g.brk = 1
                     THEN [fault |-> "RecursionError", locs |-> <<>>]
                     ELSE locations_in_tokens_same_turn(TokensFrom(tokens, g.brk), turn)
         IN  IF rest.fault # "None" THEN rest
             ELSE IF SpecBool(g.loc)
             THEN [fault |-> "None", locs |-> <<g.loc>> \o rest.locs]
             ELSE rest

\* locations_in_tokens: [fault, locs].  A recursive call on the whole list it
\* was given never returns: Python ends it with RecursionError.
RECURSIVE locations_in_tokens(_, _)
locations_in_tokens(tokens, turn) ==
    IF tokens = <<>> THEN [fault |-> "None", locs |-> <<>>]
    ELSE LET g    == ScanGroup(tokens, 1, SpecificSquares(turn, "None", "None", "None"))
             rest == IF g.brk = 0 THEN [fault |-> "None", locs |-> <<>>]
                     ELSE IF g.brk = 1
                     THEN [fault |-> "RecursionError", locs |-> <<>>]
                     ELSE locations_in_tokens(TokensFrom(tokens, g.brk), ~turn)
         IN  IF rest.fault # "None" THEN rest
             ELSE IF SpecBool(g.loc)
             THEN [fault |-> "None", locs |-> <<g.loc>> \o rest.locs]
             ELSE rest

Fault(e) == [kind |-> "fault", fault |-> e]

Range(seq) == {seq[i] : i \in DOMAIN seq}

\* the outcome of decipher_request: the command, or the exception raised
Outcome(command) ==
    IF command.fault # "None" THEN Fault(command.fault) ELSE command

\* decipher_request from "if len(locations) == 1" on: the CommandMove built
\* from the locations, before consider_moves, or the exception raised
command_for(locations, b, does_take, say_promotes) ==
    IF Len(locations) = 1
    THEN IF locations[1].file # "None" /\ locations[1].rank # "None"
         THEN CommandMove(
                SpecificSquares(b.turn,
                    IF locations[1].piece # "None" THEN locations[1].piece
                    ELSE "pawn", "None", "None"),
                [locations[1] EXCEPT !.color = ~b.turn, !.piece = "None"],
                does_take, say_promotes)
         ELSE IF does_take
         THEN take_last(locations[1], b, say_promotes)
         ELSE Fault("AssertionError")
    ELSE IF Len(locations) = 0
    THEN Fault("IndexError")
    ELSE CommandMove(locations[1], locations[2], does_take, say_promotes)

\* consider_moves on the command built, unless building it raised
considered(command_move, b) ==
    IF command_move.fault # "None" THEN Fault(command_move.fault)
    ELSE Outcome(CommandMove_consider_moves(command_move, b))

located(parsed, b, does_take, say_promotes) ==
    IF parsed.fault # "None" THEN Fault(parsed.fault)
    ELSE considered(command_for(parsed.locs, b, does_take, say_promotes), b)

\* the part of decipher_request after the castle branch
decipher_move(tokens, b) ==
    LET does_take    == Range(tokens) \cap TAKE_TOKENS # {}
        does_promote == Range(tokens) \cap PROMOTE_TOKENS # {}
        say_promotes == IF does_promote THEN tokens[Len(tokens)] ELSE "None"
    IN  located(IF does_promote
                THEN locations_in_tokens(SubSeq(tokens, 1, Len(tokens) - 1), b.turn)
                ELSE locations_in_tokens(tokens, b.turn),
                b, does_take, say_promotes)

\* decipher_request: "why", a BoardCommand with its moves considered, or the
\* exception that leaves it
decipher_request(tokens, b) ==
    IF tokens = <<"why">> THEN [kind |-> "why", fault |-> "None"]
    ELSE IF "castle" \in Range(tokens)
    THEN LET castle_command ==
                IF Range(tokens) \cap KINGSIDE_TOKENS # {} THEN CastleCommand("king")
                ELSE IF Range(tokens) \cap QUEENSIDE_TOKENS # {} THEN CastleCommand("queen")
                ELSE CastleCommand("None")
         IN  CastleCommand_consider_moves(castle_command, b)
    ELSE decipher_move(tokens, b)

IsBoardCommand(x) == x.kind \in {"move", "castle"}

----------------------------------------------------------------------------
(* feedback_assistant.py.  What assistant() speaks is a sequence of         *)
(* sentences; a sentence is a tuple that starts with its fixed text.       *)

\* speak_move: board.san(move) is defined for a legal move only and raises
\* on a move the board no longer allows
speak_move(move, b) ==
    IF ~IsLegal(b, move) THEN [fault |-> "AssertionError", said |-> <<>>]
    ELSE IF IsCastlingMove(b, move) /\ move.to > move.from
    THEN [fault |-> "None", said |-> << <<"Kingside castles.">> >>]
    ELSE IF IsCastlingMove(b, move)
    THEN [fault |-> "None", said |-> << <<"Queenside castles.">> >>]
    ELSE [fault |-> "None", said |-> << <<"san", move, IsCapture(b, move)>> >>]

\* explain_why_ambiguous: speak_move on each candidate, up to the first fault
RECURSIVE explain_why_ambiguous(_, _)
Spoken(one, more) == [fault |-> more.fault, said |-> one.said \o more.said]

SpokenThen(one, moves, b) ==
    IF one.fault # "None" THEN one
    ELSE Spoken(one, explain_why_ambiguous(moves, b))

explain_why_ambiguous(moves, b) ==
    IF moves = <<>> THEN [fault |-> "None", said |-> <<>>]
    ELSE SpokenThen(speak_move(Head(moves), b), Tail(moves), b)

\* _explain_broken_condition
explain_broken_condition(introduction, moves, b) ==
    LET Line(move) == <<"The piece on from to to", b.pos[move.from].pt,
                        move.from, move.to>>
    IN  IF Len(moves) > 0 THEN << <<introduction>> >> \o MapSeq(moves, Line)
        ELSE <<>>

\* explain_no_moves
explain_no_moves(command_move, b) ==
    LET rejects == command_move.rejected_moves
        Possible(move)   == move.possible
        NonCapture(move) == ~move.captures
        Blocked(move)    == move.blocking_pieces # {}
        InCheck(move)    == move.still_in_check
        Pinned(move)     == move.absolute_pin
    IN  IF SelectSeq(rejects, Possible) = <<>>
        THEN << <<"The piece you're trying to move cannot move like that.">> >>
        ELSE IF command_move.captures
        THEN explain_broken_condition("The following moves are non-captures:",
                                      SelectSeq(rejects, NonCapture), b)
             \o explain_broken_condition("The following moves are blocked by pieces:",
                                         SelectSeq(rejects, Blocked), b)
             \o explain_broken_condition("The following moves leave your king in check:",
                                         SelectSeq(rejects, InCheck), b)
             \o explain_broken_condition("The following moves cannot be made because the piece is pinned to the king:",
                                         SelectSeq(rejects, Pinned), b)
        ELSE <<>>

\* explain_no_castle as it would be if each test were an elif of the one before
explain_no_castle_first_only(castle_command) ==
    LET rejects == castle_command.rejected_moves
        NoRight(move) == ~move.right_to_castle
        Blocked(move) == move.blocking_pieces # {}
        InCheck(move) == move.in_check
        Through(move) == move.through_check
        Into(move)    == move.into_check
    IN  IF Len(SelectSeq(rejects, NoRight)) > 0
        THEN << <<"You have already moved your king or rook.">> >>
        ELSE IF Len(SelectSeq(rejects, Blocked)) > 0
        THEN << <<"The path between your king and rook is not clear of pieces.">> >>
        ELSE IF Len(SelectSeq(rejects, InCheck)) > 0
        THEN << <<"Your king is still in check.">> >>
        ELSE IF Len(SelectSeq(rejects, Through)) > 0
        THEN << <<"You're attempting to castle through check.">> >>
        ELSE IF Len(SelectSeq(rejects, Into)) > 0
        THEN << <<"You're attempting to castle into check.">> >>
        ELSE <<>>

\* explain_no_castle
explain_no_castle(castle_command) ==
    LET rejects == castle_command.rejected_moves
        NoRight(move) == ~move.right_to_castle
        Blocked(move) == move.blocking_pieces # {}
        InCheck(move) == move.in_check
        Through(move) == move.through_check
        Into(move)    == move.into_check
    IN  IF Len(SelectSeq(rejects, NoRight)) > 0
        THEN << <<"You have already moved your king or rook.">> >>
        ELSE (IF Len(SelectSeq(rejects, Blocked)) > 0
              THEN << <<"The path between your king and rook is not clear of pieces.">> >>
              ELSE <<>>)
          \o (IF Len(SelectSeq(rejects, InCheck)) > 0
              THEN << <<"Your king is still in check.">> >> ELSE <<>>)
          \o (IF Len(SelectSeq(rejects, Through)) > 0
              THEN << <<"You're attempting to castle through check.">> >> ELSE <<>>)
          \o (IF Len(SelectSeq(rejects, Into)) > 0
              THEN << <<"You're attempting to castle into check.">> >> ELSE <<>>)

\* explain_rejected_moves
explain_rejected_moves(command, b) ==
    IF command.kind = "move" THEN explain_no_moves(command, b)
    ELSE explain_no_castle(command)

----------------------------------------------------------------------------
(* voice_control.py.  The handlers work on the program state                *)
(* st = [board, last_spoken_command, last_board_command, said, fault].     *)

NoneCommand == [kind |-> "None", fault |-> "None"]

NoneSpoken == <<"None">>

UNKNOWN == <<"I'm sorry, I didn't get that.">>

Say(st, sentences) == [st EXCEPT !.said = st.said \o sentences]

\* respond_to_command as it would be if an ambiguous command played its first
\* candidate instead of asking
respond_to_command_plays_first(command, st) ==
    LET st1 == [st EXCEPT !.last_board_command = command]
        candidates == command.candidate_moves
    IN  IF candidates # <<>>
        THEN [Say(st1, speak_move(candidates[1], st1.board).said) EXCEPT
                 !.board = Push(st1.board, candidates[1])]
        ELSE st1

\* respond_to_command
respond_to_command(command, st) ==
    LET st1 == [st EXCEPT !.last_board_command = command]
        candidates == command.candidate_moves
    IN  IF candidates # <<>>
        THEN IF Len(candidates) = 1
             THEN LET spoken == speak_move(candidates[1], st1.board)
                  IN  [Say(st1, spoken.said) EXCEPT
                          !.board = Push(st1.board, candidates[1])]
             ELSE Say(st1, << <<"The command is ambiguous. Could you be more specific?",
                               st1.last_spoken_command>> >>)
        ELSE IF command.rejected_moves # <<>>
        THEN Say(st1, << <<"The command does not match any legal moves.",
                          st1.last_spoken_command>> >>)
        ELSE st1

\* respond_to_inquiry: None.candidate_moves raises AttributeError
Told(st, told) == [Say(st, told.said) EXCEPT !.fault = told.fault]

respond_to_inquiry(inquiry, st) ==
    IF inquiry.kind # "why" THEN st
    ELSE IF st.last_board_command.kind = "None"
    THEN [st EXCEPT !.fault = "AttributeError"]
    ELSE IF st.last_board_command.candidate_moves # <<>>
    THEN Told(Say(st, << <<"Legal moves fully matching include:",
                            st.last_spoken_command>> >>),
              explain_why_ambiguous(st.last_board_command.candidate_moves,
                                    st.board))
    ELSE Say(st, explain_rejected_moves(st.last_board_command, st.board))

\* respond_to_request
respond_to_request(parsed_request, st) ==
    IF IsBoardCommand(parsed_request) THEN respond_to_command(parsed_request, st)
    ELSE respond_to_inquiry(parsed_request, st)

\* the for loop of listen_to_request from the i-th guess on, and the fallback
\* after it.  parsed counts the guesses deciphered, responded is the index of
\* the guess whose parse was handed to respond_to_request (0: the fallback
\* handed it None).
RECURSIVE listen_loop(_, _, _, _, _)
\* the loop's body as it would be without the "continue": every guess that
\* deciphers is responded to at once
listen_pass_no_continue(guesses, i, first_with_rejects, first_index, st, parsed_request) ==
    IF parsed_request.kind = "fault"
    THEN [st |-> [st EXCEPT !.fault = parsed_request.fault], parsed |-> i,
          responded |-> 0]
    ELSE [st |-> respond_to_request(parsed_request,
                    IF IsBoardCommand(parsed_request)
                    THEN [st EXCEPT !.last_spoken_command = guesses[i]]
                    ELSE st),
          parsed |-> i, responded |-> i]

\* one pass of the loop's body, parsed_request being decipher_request's result
listen_pass(guesses, i, first_with_rejects, first_index, st, parsed_request) ==
    LET noted == IsBoardCommand(parsed_request)
                 /\ first_with_rejects.kind = "None"
                 /\ parsed_request.rejected_moves # <<>>
        st1 == IF noted THEN [st EXCEPT !.last_spoken_command = guesses[i]]
               ELSE st
        st2 == IF IsBoardCommand(parsed_request)
               THEN [st EXCEPT !.last_spoken_command = guesses[i]]
               ELSE st
    IN  IF parsed_request.kind = "fault"
        THEN [st |-> [st EXCEPT !.fault = parsed_request.fault], parsed |-> i,
              responded |-> 0]
        ELSE IF IsBoardCommand(parsed_request)
                /\ parsed_request.candidate_moves = <<>>
        THEN listen_loop(guesses, i + 1,
                         IF noted THEN parsed_request ELSE first_with_rejects,
                         IF noted THEN i ELSE first_index, st1)
        ELSE [st |-> respond_to_request(parsed_request, st2), parsed |-> i,
              responded |-> i]

listen_loop(guesses, i, first_with_rejects, first_index, st) ==
    IF i > Len(guesses)
    THEN [st |-> respond_to_request(first_with_rejects, st), parsed |-> i - 1,
          responded |-> first_index]
    ELSE listen_pass(guesses, i, first_with_rejects, first_index, st,
                     decipher_request(guesses[i], st.board))

\* listen_to_request, the recogniser having returned its ranked guesses
listen_to_request(guesses, st) ==
    listen_loop(guesses, 1, NoneCommand, 0, st)

----------------------------------------------------------------------------
(* Positions                                                               *)

BackRow == <<"rook", "knight", "bishop", "queen", "king", "bishop", "knight", "rook">>

\* chess.Board(): the standard starting position
StartPos == [s \in Squares |->
    CASE RankOf(s) = 0 -> Piece(BackRow[FileOf(s) + 1], WHITE)
      [] RankOf(s) = 1 -> Piece("pawn", WHITE)
      [] RankOf(s) = 6 -> Piece("pawn", BLACK)
      [] RankOf(s) = 7 -> Piece(BackRow[FileOf(s) + 1], BLACK)
      [] OTHER -> NoPiece]

Corners == {Sq("a", "1"), Sq("h", "1"), Sq("a", "8"), Sq("h", "8")}

StartBoard == Board(StartPos, WHITE, Corners, -1)

\* a later position set up by the caller: both sides may castle either way,
\* White has no knight left
MidPos == Place({
    <<Sq("e", "1"), "king", WHITE>>, <<Sq("a", "1"), "rook", WHITE>>,
    <<Sq("h", "1"), "rook", WHITE>>, <<Sq("a", "2"), "pawn", WHITE>>,
    <<Sq("e", "2"), "pawn", WHITE>>, <<Sq("h", "2"), "pawn", WHITE>>,
    <<Sq("e", "8"), "king", BLACK>>, <<Sq("a", "8"), "rook", BLACK>>,
    <<Sq("h", "8"), "rook", BLACK>>, <<Sq("a", "7"), "pawn", BLACK>>,
    <<Sq("d", "7"), "pawn", BLACK>>, <<Sq("h", "7"), "pawn", BLACK>>,
    <<Sq("g", "4"), "knight", BLACK>> })

MidBoard == Board(MidPos, WHITE, Corners, -1)

----------------------------------------------------------------------------
(* The session: utterances arrive one at a time, each as the recogniser's   *)
(* ranked guesses, and listen_to_request handles each to its end.          *)

MaxPlies == 2

MaxHyps == 2

Utterances == {
    <<"why">>,
    <<"castle">>,
    <<"e", "four">>,
    <<"knight", "to", "three">>,
    <<"pawn", "takes">>,
    <<"takes">>,
    <<"e", "two", "e", "four">> }

SeqsUpTo(S, n) == UNION {[1 .. k -> S] : k \in 0 .. n}

InitBoards == {StartBoard, MidBoard}

NoProbe == [op |-> "None"]

\* what the last call of listen_to_request was given and did: the guesses,
\* the board it was handed, how many guesses it deciphered, which one it
\* responded to, what it spoke and the exception that left it
Quiet(b) == [guesses |-> <<>>, before |-> b, parsed |-> 0, responded |-> 0,
             said |-> <<>>, fault |-> "None"]

Init ==
    /\ board \in InitBoards
    /\ last_spoken_command = NoneSpoken
    /\ last_board_command = NoneCommand
    /\ heard = Quiet(board)
    /\ probe = NoProbe

\* the program is running: no handler has ended with an uncaught exception,
\* and the game is within the plies explored
Running == heard.fault = "None" /\ Len(board.stack) < MaxPlies

\* listen_to_request with the recogniser returning guesses
ListenToRequest ==
    /\ Running
    /\ \E guesses \in SeqsUpTo(Utterances, MaxHyps) :
        \E r \in {listen_to_request(guesses,
                    [board |-> board, last_spoken_command |-> last_spoken_command,
                     last_board_command |-> last_board_command,
                     said |-> <<>>, fault |-> "None"])} :
            /\ board' = r.st.board
            /\ last_spoken_command' = r.st.last_spoken_command
            /\ last_board_command' = r.st.last_board_command
            /\ heard' = [guesses |-> guesses, before |-> board,
                         parsed |-> r.parsed,
                         responded |-> r.responded, said |-> r.st.said,
                         fault |-> r.st.fault]
            /\ UNCHANGED probe

\* listen_to_request with the recogniser raising sr.UnknownValueError
ListenUnknownValue ==
    /\ Running
    /\ heard' = [Quiet(board) EXCEPT !.said = <<UNKNOWN>>]
    /\ UNCHANGED <<board, last_spoken_command, last_board_command, probe>>

Next == ListenToRequest \/ ListenUnknownValue

Spec == Init /\ [][Next]_vars

----------------------------------------------------------------------------
(* Properties of the session                                               *)

\* what decipher_request answered for the i-th guess of the last utterance
Deciphered(i) == decipher_request(heard.guesses[i], heard.before)

FirstOf(S) == IF S = {} THEN 0 ELSE CHOOSE i \in S : \A j \in S : i <= j

\* the guesses that end the loop: 'why', a command with a candidate, or one
\* whose deciphering raises
StopsLoop(d) == d.kind \in {"why", "fault"} \/ d.candidate_moves # <<>>

Stopping == {i \in DOMAIN heard.guesses : StopsLoop(Deciphered(i))}

YieldsCandidates(d) == IsBoardCommand(d) /\ d.candidate_moves # <<>>

YieldsRejects(d) == IsBoardCommand(d) /\ d.rejected_moves # <<>>

HasCandidates == {i \in DOMAIN heard.guesses : YieldsCandidates(Deciphered(i))}

HasRejects == {i \in DOMAIN heard.guesses : YieldsRejects(Deciphered(i))}

\* the last call got guesses from the recogniser
Handled == heard.said # <<UNKNOWN>>

NoMatch(guess) == << <<"The command does not match any legal moves.", guess>> >>

C3_Stopped(k, d) ==
    /\ heard.parsed = k
    /\ IF d.kind = "fault"
       THEN /\ heard.responded = 0
            /\ heard.fault = d.fault
            /\ heard.said = <<>>
            /\ board = heard.before
       ELSE heard.responded = k
    /\ IsBoardCommand(d) =>
          /\ last_board_command = d
          /\ last_spoken_command = heard.guesses[k]

C3_FellThrough(r) ==
    /\ heard.parsed = Len(heard.guesses)
    /\ heard.responded = r
    /\ heard.fault = "None"
    /\ board = heard.before
    /\ IF r = 0 THEN heard.said = <<>>
       ELSE /\ last_board_command = Deciphered(r)
            /\ last_spoken_command = heard.guesses[r]
            /\ heard.said = NoMatch(heard.guesses[r])

C3_Outcome(k) ==
    IF k # 0 THEN C3_Stopped(k, Deciphered(k))
    ELSE C3_FellThrough(FirstOf(HasRejects))

\* C3 (as the code has it): listen_to_request deciphers the guesses in rank
\* order and stops at the first that is the inquiry 'why', a command with at
\* least one candidate, or a guess whose deciphering raises.  It responds to
\* that guess and to no other; when deciphering raised it responds to none
\* and the exception leaves the handler.  When no guess stops the loop it
\* responds to the first guess whose command had rejects, saying that the
\* command matches no legal move, and when there is none it says nothing and
\* leaves the board alone.
C3_RespondsToFirstStoppingGuess == Handled => C3_Outcome(FirstOf(Stopping))

\* a 'why' ranked first was responded to although the second guess was a
\* command with a candidate
C3_WhyAnsweredBeforeCandidate ==
    /\ Len(heard.guesses) = 2
    /\ heard.guesses[1] = <<"why">>
    /\ HasCandidates = {2}
    /\ heard.responded = 1
    /\ heard.fault = "None"

C3_Claimed(c, r) ==
    heard.responded = (IF c # 0 THEN c ELSE r)

\* C3 (as claimed): of the guesses of an utterance that all decipher, the
\* one responded to is the first whose command has a candidate and, when no
\* command has one, the first whose command has rejects
C3_RespondsToFirstCandidateElseFirstReject ==
    (/\ Handled
     /\ heard.fault = "None"
     /\ HasCandidates \cup HasRejects # {}
     /\ \A i \in DOMAIN heard.guesses : Deciphered(i).kind # "fault")
    => C3_Claimed(FirstOf(HasCandidates), FirstOf(HasRejects))

C4_Played(d) ==
    IF YieldsCandidates(d) /\ Len(d.candidate_moves) = 1
    THEN board = Push(heard.before, d.candidate_moves[1])
    ELSE board = heard.before

\* C4: whatever the utterance, the board after listen_to_request is the
\* board it was handed (position and move history alike), unless the guess
\* responded to is a command with exactly one candidate, and then it is that
\* board with the candidate pushed.  A command with no candidate or with
\* several, a 'why', and every guess that was only deciphered leave it as
\* it was.
C4_BoardChangesOnlyBySingleCandidate ==
    IF heard.responded = 0 THEN board = heard.before
    ELSE C4_Played(Deciphered(heard.responded))

\* the second guess was responded to and its single candidate pushed
C4_SecondGuessPlayed ==
    /\ heard.responded = 2
    /\ board # heard.before
    /\ Len(board.stack) = 2

\* the request is to take the opponent's last-moved piece: a take word, and
\* at most one location, which is no file-and-rank square
IsTakeLast(parsed) ==
    /\ parsed.fault = "None"
    /\ Len(parsed.locs) <= 1
    /\ \A i \in DOMAIN parsed.locs :
          parsed.locs[i].file = "None" \/ parsed.locs[i].rank = "None"

TakesLast(tokens, turn) ==
    /\ Range(tokens) \cap TAKE_TOKENS # {}
    /\ Range(tokens) \cap PROMOTE_TOKENS = {}
    /\ "castle" \notin Range(tokens)
    /\ IsTakeLast(locations_in_tokens(tokens, turn))

\* C9 (as claimed): a request to take the last-moved piece made before any
\* move was played ends decipher_request with a command, never with an
\* exception
C9_TakeLastOnEmptyHistoryIsDefined ==
    \A i \in 1 .. heard.parsed :
        (heard.before.stack = <<>>
         /\ TakesLast(heard.guesses[i], heard.before.turn))
        => Deciphered(i).kind # "fault"


\* the handler answered a 'why' by listing the candidates of the retained
\* command, quoting an utterance
WhyQuoted(h) ==
    /\ h.said # <<>>
    /\ h.said[1][1] = "Legal moves fully matching include:"

Quoted(h) == h.said[1][2]

\* the retained command is the one the retained utterance parses to on the
\* board the handler was given
InStep(spoken, command, b) == command = decipher_request(spoken, b)

\* C12: last_spoken_command and last_board_command refer to the same
\* hypothesis.  A call of listen_to_request that returns and replaces either
\* of them leaves the command that the retained utterance parses to; and the
\* utterance quoted in the answer to a 'why' is the one that was retained
\* with the command whose candidates the answer lists.
C12_SpokenAndBoardCommandAgree ==
    [][heard'.fault = "None" =>
        /\ (last_spoken_command' # last_spoken_command
              \/ last_board_command' # last_board_command)
            => InStep(last_spoken_command', last_board_command', board)
        /\ WhyQuoted(heard') => Quoted(heard') = last_spoken_command]_vars

----------------------------------------------------------------------------
(* is_possible_move and blocking_squares on their own: the arguments are    *)
(* drawn at the start, the call is made once.                              *)

ProbePieces == {Piece(pt, c) : pt \in {"pawn", "knight"}, c \in {WHITE, BLACK}}

PossibleInputs ==
    {[op |-> "is_possible_move", piece |-> p, from |-> f, to |-> t, done |-> FALSE] :
        p \in ProbePieces, f \in Squares, t \in Squares}

BlockingInputs(b) ==
    {[op |-> "blocking_squares", from |-> f, to |-> t, done |-> FALSE] :
        f \in Occupied(b.pos), t \in Squares}

SessionAtRest ==
    /\ last_spoken_command = NoneSpoken
    /\ last_board_command = NoneCommand
    /\ heard = Quiet(board)

InitFeasible ==
    /\ board \in InitBoards
    /\ SessionAtRest
    /\ \/ board = StartBoard /\ probe \in PossibleInputs
       \/ probe \in BlockingInputs(board)

Pending(op) == probe.op = op /\ ~probe.done

Done(op) == probe.op = op /\ probe.done

CallIsPossibleMove ==
    /\ Pending("is_possible_move")
    /\ probe' = [op |-> probe.op, piece |-> probe.piece, from |-> probe.from,
                 to |-> probe.to, done |-> TRUE,
                 out |-> is_possible_move(probe.piece, probe.from, probe.to)]
    /\ UNCHANGED <<board, last_spoken_command, last_board_command, heard>>

CallBlockingSquares ==
    /\ Pending("blocking_squares")
    /\ probe' = [op |-> probe.op, from |-> probe.from, to |-> probe.to,
                 done |-> TRUE,
                 out |-> blocking_squares(board, probe.from, probe.to)]
    /\ UNCHANGED <<board, last_spoken_command, last_board_command, heard>>

NextFeasible == CallIsPossibleMove \/ CallBlockingSquares

SpecFeasible == InitFeasible /\ [][NextFeasible]_vars

\* the call was blocking_squares for a knight and a square a knight's move away
KnightCall ==
    /\ Done("blocking_squares")
    /\ board.pos[probe.from].pt = "knight"
    /\ probe.to \in KnightReach(probe.from)

OwnPieceOn(from, to) ==
    board.pos[to].pt # "None" /\ board.pos[to].color = board.pos[from].color

\* C7 (as the code has it): for a knight and a destination a knight's move
\* away, blocking_squares is empty whenever the destination holds no piece
\* of the knight's colour, whatever else is on the board; when it holds
\* one, the result is what the destination alone contributes, the squares
\* whose bits are set in the destination's number (none only for a1).
C7_KnightBlockedOnlyByOwnDestination ==
    KnightCall =>
        probe.out = (IF OwnPieceOn(probe.from, probe.to)
                     THEN IntMask(probe.to) ELSE {})

\* a knight whose destination holds a piece of its colour: the result is
\* not empty
C7_KnightOntoOwnPiece ==
    /\ KnightCall
    /\ OwnPieceOn(probe.from, probe.to)
    /\ probe.out # {}

\* C7 (as claimed): for every knight and every destination a knight's move
\* away, blocking_squares is empty
C7_KnightNeverBlocked == KnightCall => probe.out = {}

PawnCall == Done("is_possible_move") /\ probe.piece.pt = "pawn"

Forward(c) == IF c = WHITE THEN 1 ELSE -1

OnStartRank(c, s) ==
    s \in (IF c = WHITE THEN BB_RANK("2") ELSE BB_RANK("7"))

OneStep(c, s) == Off(s, <<0, Forward(c)>>)

TwoStep(c, s) == Off(s, <<0, 2 * Forward(c)>>)

Diagonals(c, s) == {Off(s, <<-1, Forward(c)>>), Off(s, <<1, Forward(c)>>)}

PawnAdvances(c, s) ==
    ({OneStep(c, s)} \cup (IF OnStartRank(c, s) THEN {TwoStep(c, s)} ELSE {}))
        \ {-1}

\* C8 (as the code has it): for a pawn of either colour on any square,
\* is_possible_move is true for the one-step forward square, for the
\* two-step forward square when the pawn stands on its start rank (white
\* rank 2, black rank 7), and false for every other destination, the two
\* diagonal capture squares included.
C8_PawnPossibleIsForwardOnly ==
    PawnCall =>
        probe.out = (probe.to \in PawnAdvances(probe.piece.color, probe.from))

\* a pawn off its start rank asked about a diagonal square: not possible
C8_DiagonalOffStartRank ==
    /\ PawnCall
    /\ ~OnStartRank(probe.piece.color, probe.from)
    /\ probe.to \in Diagonals(probe.piece.color, probe.from)
    /\ probe.out = FALSE

\* C8 (as claimed): on its start rank a pawn may go to the one-step and the
\* two-step forward squares; on any other rank it may go to exactly the
\* one-step forward square and the two diagonal capture squares
C8_PawnPossibleWithDiagonals ==
    PawnCall =>
        IF OnStartRank(probe.piece.color, probe.from)
        THEN probe.to \in {OneStep(probe.piece.color, probe.from),
                           TwoStep(probe.piece.color, probe.from)} => probe.out
        ELSE probe.out =
                (probe.to \in ({OneStep(probe.piece.color, probe.from)} \cup
                               Diagonals(probe.piece.color, probe.from)) \ {-1})

----------------------------------------------------------------------------
(* find_candidate_squares and CommandMove.consider_moves on their own      *)

\* White to move: e4 can take on d5 or advance, a7 can promote on a8 or by
\* taking on b8, the king can castle short
TakePos == Place({
    <<Sq("e", "1"), "king", WHITE>>, <<Sq("h", "1"), "rook", WHITE>>,
    <<Sq("f", "3"), "knight", WHITE>>, <<Sq("e", "4"), "pawn", WHITE>>,
    <<Sq("a", "7"), "pawn", WHITE>>,
    <<Sq("e", "8"), "king", BLACK>>, <<Sq("d", "5"), "pawn", BLACK>>,
    <<Sq("b", "8"), "knight", BLACK>> })

TakeBoard == Board(TakePos, WHITE, {Sq("h", "1")}, -1)

ConsiderBoards == {MidBoard, TakeBoard}

NoneOr(S) == {"None"} \cup S

AllSpecs ==
    {SpecificSquares(c, p, f, r) :
        c \in {WHITE, BLACK}, p \in NoneOr(PIECES), f \in NoneOr(FILES),
        r \in NoneOr(RANKS)}

FromSpecs ==
    {SpecificSquares(c, p, f, r) :
        c \in {WHITE, BLACK}, p \in {"None", "pawn", "king"}, f \in {"None", "e"},
        r \in {"None", "3"}}

ToSpecs ==
    {SpecificSquares(c, p, f, r) :
        c \in {WHITE, BLACK}, p \in {"None", "pawn", "knight"},
        f \in {"None", "d", "h"}, r \in {"None", "1", "5", "8"}}

Truthy(specs) == {spec \in specs : SpecBool(spec)}

FindInputs ==
    {[op |-> "find_candidate_squares", spec |-> spec, done |-> FALSE] :
        spec \in Truthy(AllSpecs)}

ConsiderInputs ==
    {[op |-> "consider_moves", cmd |-> CommandMove(f, t, takes, pr), done |-> FALSE] :
        f \in Truthy(FromSpecs), t \in Truthy(ToSpecs), takes \in BOOLEAN,
        pr \in {"None", "knight"}}

InitConsider ==
    /\ board \in ConsiderBoards
    /\ SessionAtRest
    /\ probe \in FindInputs \cup ConsiderInputs

CallFindCandidateSquares ==
    /\ Pending("find_candidate_squares")
    /\ probe' = [op |-> probe.op, spec |-> probe.spec, done |-> TRUE,
                 out |-> find_candidate_squares(probe.spec, board)]
    /\ UNCHANGED <<board, last_spoken_command, last_board_command, heard>>

CallConsiderMoves ==
    /\ Pending("consider_moves")
    /\ probe' = [op |-> probe.op, cmd |-> probe.cmd, done |-> TRUE,
                 out |-> CommandMove_consider_moves(probe.cmd, board)]
    /\ UNCHANGED <<board, last_spoken_command, last_board_command, heard>>

NextConsider == CallFindCandidateSquares \/ CallConsiderMoves

SpecConsider == InitConsider /\ [][NextConsider]_vars

\* the product of matching squares, in the order the loops visit it
ProbePairs ==
    PairSeq(find_candidate_squares(probe.cmd.from_where, board),
            find_candidate_squares(probe.cmd.to_where, board))

ProbePromote ==
    IF probe.cmd.promotes_to \in PIECES THEN probe.cmd.promotes_to ELSE "None"

\* the rules engine finds a legal move for the pair
PairLegal(pair) == ~FindMoveFails(board, pair[1], pair[2], ProbePromote)

PairMove(pair) == FindMoveLookup(board, pair[1], pair[2], ProbePromote)

\* ... and, a capture being asked for, the move is a capture
PairAccepted(pair) ==
    PairLegal(pair) /\ (probe.cmd.captures => IsCapture(board, PairMove(pair)))

PairRefused(pair) == ~PairAccepted(pair)

\* a refused pair whose origin square is empty: RejectedMove raises on it
PairRaises(pair) == PairRefused(pair) /\ board.pos[pair[1]].pt = "None"

Ends(move) == <<move.from, move.to>>

C1_Returned(pairs) ==
    /\ probe.out.fault = "None"
    /\ probe.out.candidate_moves = MapSeq(SelectSeq(pairs, PairAccepted), PairMove)
    /\ MapSeq(probe.out.rejected_moves, Ends) = SelectSeq(pairs, PairRefused)
    /\ Len(probe.out.candidate_moves) + Len(probe.out.rejected_moves) = Len(pairs)

C1_Raised ==
    /\ probe.out.fault = "AttributeError"
    /\ probe.out.candidate_moves = <<>>
    /\ probe.out.rejected_moves = <<>>

C1_Outcome(pairs) ==
    IF \E i \in DOMAIN pairs : PairRaises(pairs[i])
    THEN C1_Raised ELSE C1_Returned(pairs)

\* C1 (as the code has it): a consider_moves call that returns puts every
\* (origin, destination) pair of the product of matching squares in exactly
\* one of the two lists, in the order visited: in candidate_moves (as the
\* move the rules engine found) iff the engine finds a legal move for it and,
\* a capture being asked for, that move is a capture; in rejected_moves
\* otherwise, the legal non-capturing pairs under capture intent included.
\* The call raises, assigning neither list, exactly when a refused pair has
\* an empty origin square.
C1_EveryPairInExactlyOneList ==
    Done("consider_moves") => C1_Outcome(ProbePairs)

InRejects(pair) ==
    \E i \in DOMAIN probe.out.rejected_moves :
        Ends(probe.out.rejected_moves[i]) = pair

InCandidates(pair) ==
    \E i \in DOMAIN probe.out.candidate_moves :
        probe.out.candidate_moves[i] = PairMove(pair)

\* a capture was asked for, a pair has a legal move that is no capture, and
\* the pair is among the rejects
C1_NonCaptureRejected ==
    /\ Done("consider_moves")
    /\ probe.out.fault = "None"
    /\ probe.cmd.captures
    /\ \E i \in DOMAIN ProbePairs :
          /\ PairLegal(ProbePairs[i])
          /\ PairRefused(ProbePairs[i])
          /\ InRejects(ProbePairs[i])

C1_AsClaimed(pair) ==
    /\ InCandidates(pair) <=> PairAccepted(pair)
    /\ InRejects(pair) <=> ~PairLegal(pair)

\* C1 (as claimed): of a call that returns, a pair is a candidate iff it has
\* a legal move (a capture, when one is asked for), a reject iff it has no
\* legal move, and in neither list when its move is legal but no capture
\* while a capture is asked for
C1_NonCapturesInNeitherList ==
    (Done("consider_moves") /\ probe.out.fault = "None") =>
        \A i \in DOMAIN ProbePairs : C1_AsClaimed(ProbePairs[i])

FindCall == Done("find_candidate_squares")

MatchesSet(spec, s) ==
    /\ spec.file # "None" => s \in BB_FILE(spec.file)
    /\ spec.rank # "None" => s \in BB_RANK(spec.rank)

FileOnly(spec) == spec.file # "None" /\ spec.piece = "None" /\ spec.rank = "None"

\* the piece kind the colour comes with: the one set, or pawn for a file alone
KindMeant(spec) ==
    IF spec.piece # "None" THEN spec.piece
    ELSE IF FileOnly(spec) THEN "pawn" ELSE "None"

\* C5 (as the code has it): for a specification with at least one of piece
\* kind, file and rank set, find_candidate_squares returns exactly the
\* squares on the set file and the set rank that, when a piece kind is set
\* or the file is the only attribute (the kind is then taken to be pawn),
\* hold a piece of that kind and of the specification's colour.  With no
\* piece kind set and a rank set, colour and occupancy play no part.
C5_ColourEnforcedWithPieceKind ==
    FindCall =>
        probe.out =
            {s \in Squares :
                /\ MatchesSet(probe.spec, s)
                /\ KindMeant(probe.spec) # "None" =>
                      board.pos[s] = Piece(KindMeant(probe.spec), probe.spec.color)}

\* a specification of a rank alone returned a square that holds no piece of
\* its colour
C5_RankAloneIgnoresColour ==
    /\ FindCall
    /\ probe.spec.piece = "None" /\ probe.spec.file = "None"
    /\ \E s \in probe.out : s \notin OccupiedCo(board.pos, probe.spec.color)

\* C5 (as claimed): every returned square holds a piece of the
\* specification's colour and matches every set attribute, and every such
\* square is returned when a piece kind or a rank is set
C5_ColourAlwaysEnforced ==
    FindCall =>
        /\ \A s \in probe.out :
              /\ s \in OccupiedCo(board.pos, probe.spec.color)
              /\ MatchesSet(probe.spec, s)
              /\ probe.spec.piece # "None" => board.pos[s].pt = probe.spec.piece
        /\ ~FileOnly(probe.spec) =>
              \A s \in OccupiedCo(board.pos, probe.spec.color) :
                  (/\ MatchesSet(probe.spec, s)
                   /\ probe.spec.piece # "None" => board.pos[s].pt = probe.spec.piece)
                  => s \in probe.out


\* the five diagnostics of a RejectedMove
Diagnostics ==
    {"possible", "captures", "blocking_pieces", "still_in_check", "absolute_pin"}

\* the pair is among the rejects with every diagnostic set
RejectedWithDiagnostics(pair) ==
    \E i \in DOMAIN probe.out.rejected_moves :
        /\ Ends(probe.out.rejected_moves[i]) = pair
        /\ Diagnostics \subseteq DOMAIN probe.out.rejected_moves[i]

\* C13: CommandMove.consider_moves raises nothing, and every pair of the
\* product for which the rules engine finds no legal move is among the
\* rejects with its five diagnostics set, the pairs whose origin square is
\* empty included
C13_IllegalPairsRejectedWithoutFault ==
    Done("consider_moves") =>
        /\ probe.out.fault = "None"
        /\ \A i \in DOMAIN ProbePairs :
              ~PairLegal(ProbePairs[i]) => RejectedWithDiagnostics(ProbePairs[i])

----------------------------------------------------------------------------
(* CastleCommand.consider_moves and explain_no_castle on their own, on      *)
(* positions with the king and both rooks of the side to move at home.     *)

MaxBlockers == 2

MaxAttackers == 3

UpTo(S, n) == {T \in SUBSET S : Cardinality(T) <= n}

HomeRank(c) == IF c = WHITE THEN "1" ELSE "8"

\* the rank the opponent's rooks stand on, the opponent's king behind them
RookRank(c) == IF c = WHITE THEN "7" ELSE "2"

\* knights of colour bc on the back-rank files in blockers, the opponent's
\* rooks on the files in attackers; the castling rights are those with the
\* rooks on the files in rooks
CastlePos(c, blockers, bc, attackers) == Place(
    {<<Sq("e", HomeRank(c)), "king", c>>, <<Sq("a", HomeRank(c)), "rook", c>>,
     <<Sq("h", HomeRank(c)), "rook", c>>, <<Sq("e", HomeRank(~c)), "king", ~c>>}
    \cup {<<Sq(f, HomeRank(c)), "knight", bc>> : f \in blockers}
    \cup {<<Sq(f, RookRank(c)), "rook", ~c>> : f \in attackers})

CastleBoards ==
    {Board(CastlePos(c, blockers, bc, attackers), c,
           {Sq(f, HomeRank(c)) : f \in rooks}, -1) :
        c \in {WHITE, BLACK},
        blockers \in UpTo({"b", "c", "d", "f", "g"}, MaxBlockers),
        bc \in {WHITE, BLACK},
        attackers \in UpTo({"c", "d", "e", "f", "g"}, MaxAttackers),
        rooks \in SUBSET {"a", "h"}}

CastleInputs ==
    {[op |-> "castle", side |-> side, stage |-> "asked", done |-> FALSE] :
        side \in {"king", "queen", "None"}}

InitCastle ==
    /\ board \in CastleBoards
    /\ SessionAtRest
    /\ probe \in CastleInputs

CallCastleConsiderMoves ==
    /\ Pending("castle")
    /\ probe.stage = "asked"
    /\ probe' = [op |-> probe.op, side |-> probe.side, stage |-> "considered",
                 done |-> FALSE,
                 out |-> CastleCommand_consider_moves(CastleCommand(probe.side),
                                                     board)]
    /\ UNCHANGED <<board, last_spoken_command, last_board_command, heard>>

\* explain_rejected_moves reaches explain_no_castle for a castle command
\* without candidates
CallExplainNoCastle ==
    /\ Pending("castle")
    /\ probe.stage = "considered"
    /\ probe.out.candidate_moves = <<>>
    /\ probe' = [op |-> probe.op, side |-> probe.side, stage |-> "explained",
                 done |-> TRUE, out |-> probe.out,
                 said |-> explain_no_castle(probe.out)]
    /\ UNCHANGED <<board, last_spoken_command, last_board_command, heard>>

NextCastle == CallCastleConsiderMoves \/ CallExplainNoCastle

SpecCastle == InitCastle /\ [][NextCastle]_vars

Explained == Done("castle") /\ probe.stage = "explained"

SomeReject(Holds(_)) ==
    \E i \in DOMAIN probe.out.rejected_moves : Holds(probe.out.rejected_moves[i])

RejectNoRight(move) == ~move.right_to_castle

RejectBlocked(move) == move.blocking_pieces # {}

RejectInCheck(move) == move.in_check

RejectThrough(move) == move.through_check

RejectInto(move) == move.into_check

SayIf(holds, text) == IF holds THEN << <<text>> >> ELSE <<>>

\* C2 (as the code has it): for a castle command with no candidates,
\* explain_no_castle says the missing-rights sentence alone when a reject
\* lacks the right to castle; otherwise it says one sentence for each of
\* the conditions blocked path, currently in check, castling through
\* check, castling into check that holds on some reject, in that order:
\* any number of sentences from none to four.
C2_OneSentencePerCondition ==
    Explained =>
        probe.said =
            IF SomeReject(RejectNoRight)
            THEN << <<"You have already moved your king or rook.">> >>
            ELSE SayIf(SomeReject(RejectBlocked),
                       "The path between your king and rook is not clear of pieces.")
              \o SayIf(SomeReject(RejectInCheck), "Your king is still in check.")
              \o SayIf(SomeReject(RejectThrough),
                       "You're attempting to castle through check.")
              \o SayIf(SomeReject(RejectInto),
                       "You're attempting to castle into check.")

\* a castle command without candidates explained in two sentences or more
C2_SeveralSentences == Explained /\ Len(probe.said) >= 2

\* C2 (as claimed): explain_no_castle says at most one sentence, that of the
\* first condition that holds on some reject in the order missing rights,
\* blocked path, in check, through check, into check
C2_AtMostOneSentence ==
    Explained =>
        probe.said =
            IF SomeReject(RejectNoRight)
            THEN << <<"You have already moved your king or rook.">> >>
            ELSE IF SomeReject(RejectBlocked)
            THEN << <<"The path between your king and rook is not clear of pieces.">> >>
            ELSE IF SomeReject(RejectInCheck)
            THEN << <<"Your king is still in check.">> >>
            ELSE IF SomeReject(RejectThrough)
            THEN << <<"You're attempting to castle through check.">> >>
            ELSE IF SomeReject(RejectInto)
            THEN << <<"You're attempting to castle into check.">> >>
            ELSE <<>>

RookHome(side) ==
    IF side = "king" THEN Sq("h", HomeRank(board.turn))
    ELSE Sq("a", HomeRank(board.turn))

\* the occupied squares strictly between the king and the rook of a side;
\* the king's transit and landing squares are among them
OccupiedBetween(side) ==
    Between(KingHome(board.turn), RookHome(side)) \cap Occupied(board.pos)

\* C6 (as claimed): the blocking squares of a rejected castle that has the
\* right to castle are the occupied squares strictly between the king and
\* the rook of its side
C6_BlockingSquaresAreOccupiedBetween ==
    (probe.op = "castle" /\ probe.stage # "asked") =>
        \A i \in DOMAIN probe.out.rejected_moves :
            probe.out.rejected_moves[i].right_to_castle =>
                probe.out.rejected_moves[i].blocking_pieces =
                    OccupiedBetween(probe.out.rejected_moves[i].side)

----------------------------------------------------------------------------
(* locations_in_tokens on its own                                          *)

MaxTokens == 3

\* piece names, 'on', a file letter, a spelled-out and a digit rank, a filler
ParseTokens == {"knight", "bishop", "on", "e", "four", "4", "to"}

ParseInputs ==
    {[op |-> "locations_in_tokens", tokens |-> tokens, turn |-> turn,
      done |-> FALSE] :
        tokens \in SeqsUpTo(ParseTokens, MaxTokens), turn \in {WHITE, BLACK}}

InitParse ==
    /\ board = StartBoard
    /\ SessionAtRest
    /\ probe \in ParseInputs

CallLocationsInTokens ==
    /\ Pending("locations_in_tokens")
    /\ probe' = [op |-> probe.op, tokens |-> probe.tokens, turn |-> probe.turn,
                 done |-> TRUE,
                 out |-> locations_in_tokens(probe.tokens, probe.turn)]
    /\ UNCHANGED <<board, last_spoken_command, last_board_command, heard>>

NextParse == CallLocationsInTokens

SpecParse == InitParse /\ [][NextParse]_vars

ParseCall == Done("locations_in_tokens")

\* the tokens a specification is built from
LocationTokens == PIECES \cup FILES \cup DOMAIN WRITTEN_NUMS

LocationAt == {i \in DOMAIN probe.tokens : probe.tokens[i] \in LocationTokens}

\* the tokens before the first location token that end a group: all but 'on'
FillersBefore(i) == {j \in 1 .. i - 1 : probe.tokens[j] # "on"}

FirstColour ==
    IF Cardinality(FillersBefore(FirstOf(LocationAt))) % 2 = 0
    THEN probe.turn ELSE ~probe.turn

C10_Returned ==
    /\ probe.out.fault = "None"
    /\ Len(probe.out.locs) <= Cardinality(LocationAt)
    /\ probe.out.locs # <<>> <=> LocationAt # {}
    /\ \A i \in DOMAIN probe.out.locs : SpecBool(probe.out.locs[i])
    /\ probe.out.locs # <<>> => probe.out.locs[1].color = FirstColour

\* C10 (as the code has it): locations_in_tokens does not return (its
\* recursion never ends) exactly when the list holds a digit rank token.
\* Otherwise it returns non-empty specifications, at least one when the list
\* holds a piece name, a file letter or a spelled-out rank, and at most one
\* for each of these tokens, so possibly more than two; the first has the
\* side-to-move colour when an even number of filler words (words other
\* than 'on') stand before the first such token, and the other colour when
\* that number is odd.
C10_OneSpecificationPerGroup ==
    ParseCall =>
        IF \E i \in DOMAIN probe.tokens : probe.tokens[i] \in RANKS
        THEN probe.out.fault = "RecursionError"
        ELSE C10_Returned

\* three specifications were returned
C10_ThreeSpecifications ==
    /\ ParseCall
    /\ probe.out.fault = "None"
    /\ Len(probe.out.locs) = 3

\* C10 (as claimed): a call that returns gives at most two specifications,
\* the first (if any) with the side-to-move colour
C10_AtMostTwoFirstToMove ==
    (ParseCall /\ probe.out.fault = "None") =>
        /\ Len(probe.out.locs) <= 2
        /\ probe.out.locs # <<>> => probe.out.locs[1].color = probe.turn

\* the token list the call hands to its recursive call, when it makes one
RecursesOn(tokens, turn) ==
    TokensFrom(tokens,
        ScanGroup(tokens, 1, SpecificSquares(turn, "None", "None", "None")).brk)

\* the call breaks out of its loop, so makes a recursive call
Recurses(tokens, turn) ==
    /\ tokens # <<>>
    /\ ScanGroup(tokens, 1, SpecificSquares(turn, "None", "None", "None")).brk # 0

\* C11: locations_in_tokens returns on every token list, and the recursive
\* call it makes (if any) is on a strictly shorter list than its own
C11_TerminatesOnEveryTokenList ==
    ParseCall =>
        /\ probe.out.fault = "None"
        /\ Recurses(probe.tokens, probe.turn) =>
              Len(RecursesOn(probe.tokens, probe.turn)) < Len(probe.tokens)

============================================================================
